---- MODULE Spec2Model ----
(***************************************************************************)
(* merge_genotypes.py: merge of an unphased single-sample VCF ("A") with a *)
(* VCF-like file of phased genotypes ("B"), keyed by genomic coordinate.   *)
(*                                                                         *)
(* Text is modelled character by character: a Python str is a sequence of  *)
(* one-character strings, a file is the sequence of its lines (each with   *)
(* its terminating newline), so that strip, split, join, int and the       *)
(* f-string that rebuilds the sample column are computed as Python         *)
(* computes them.  Python's 0-based index n is index n+1 here.             *)
(***************************************************************************)
EXTENDS Integers, Sequences, FiniteSets, TLC

(***************************************************************************)
(* Bounds of the model.                                                    *)
(***************************************************************************)
MaxLinesA   == 2    \* file A has at most this many lines of any kind, or
MaxRecordsA == 3    \* at most this many lines when all are well-formed records
MaxLinesB   == 1    \* file B has at most this many lines of any kind, or
MaxRecordsB == 2    \* at most this many lines when all are well-formed records
MaxExtra    == 2    \* most per-sample subfields after the genotype

(***************************************************************************)
(* Python str primitives.                                                  *)
(***************************************************************************)
TAB   == "\t"
NL    == "\n"
COLON == ":"

\* str.strip() without argument removes these from both ends
WHITESPACE == {" ", "\t", "\n", "\r", "\f"}

DIGITS == <<"0", "1", "2", "3", "4", "5", "6", "7", "8", "9">>

IsDigit(c) == \E i \in 1..Len(DIGITS) : DIGITS[i] = c

DigitValue(c) == (CHOOSE i \in 1..Len(DIGITS) : DIGITS[i] = c) - 1

RECURSIVE lstrip(_)
lstrip(s) ==
    IF s # <<>> /\ Head(s) \in WHITESPACE THEN lstrip(Tail(s)) ELSE s

RECURSIVE rstrip(_)
rstrip(s) ==
    IF s # <<>> /\ s[Len(s)] \in WHITESPACE
    THEN rstrip(SubSeq(s, 1, Len(s) - 1))
    ELSE s

\* line.strip()
strip(s) == rstrip(lstrip(s))

\* s.split(sep) for a one-character sep: always at least one component;
\* cut holds the positions of sep in s, with both ends of s around them
split(s, sep) ==
    LET cut == <<0>> \o SelectSeq([i \in 1..Len(s) |-> i], LAMBDA i : s[i] = sep)
                   \o <<Len(s) + 1>>
    IN  [k \in 1..(Len(cut) - 1) |-> SubSeq(s, cut[k] + 1, cut[k + 1] - 1)] \o <<>>

\* sep.join(parts), sep a str (possibly empty)
RECURSIVE join(_, _)
join(sep, parts) ==
    IF parts = <<>> THEN <<>>
    ELSE IF Len(parts) = 1 THEN parts[1]
    ELSE parts[1] \o sep \o join(sep, Tail(parts))

\* gt.replace(old, new) for one-character old and new
replace(s, old, new) == [i \in 1..Len(s) |-> IF s[i] = old THEN new ELSE s[i]]

\* line.startswith('#')
startswith_hash(line) == line # <<>> /\ line[1] = "#"

\* int(s): surrounding whitespace and one sign are accepted, then decimal
\* digits, single underscores allowed between digits
int_body(s) ==
    LET t == strip(s)
    IN  IF t # <<>> /\ t[1] \in {"+", "-"} THEN Tail(t) ELSE t

int_ok(s) ==
    LET u == int_body(s)
    IN  /\ u # <<>>
        /\ \A i \in 1..Len(u) :
              \/ IsDigit(u[i])
              \/ /\ u[i] = "_"
                 /\ 1 < i /\ i < Len(u)
                 /\ IsDigit(u[i - 1]) /\ IsDigit(u[i + 1])

RECURSIVE digits_value(_, _)
digits_value(u, acc) ==
    IF u = <<>> THEN acc
    ELSE IF Head(u) = "_" THEN digits_value(Tail(u), acc)
    ELSE digits_value(Tail(u), 10 * acc + DigitValue(Head(u)))

int_value(s) ==
    LET t == strip(s)
        v == digits_value(int_body(s), 0)
    IN  IF t # <<>> /\ t[1] = "-" THEN 0 - v ELSE v

(***************************************************************************)
(* Module-level constants of the program.                                  *)
(***************************************************************************)
phase_genotype(gt) == replace(gt, "/", "|")

ALLOWED_GENOTYPES ==
    { <<"0", "/", "0">>, <<"1", "/", "0">>, <<"0", "/", "1">>, <<"1", "/", "1">> }

\* map(phase_genotype, ALLOWED_GENOTYPES)
PHASED_GENOTYPES == { phase_genotype(gt) : gt \in ALLOWED_GENOTYPES }

EVENTS ==
    << "read_lines", "inconsistent_ref_alt_genotypes",
       "inconsistent_ref_alt_alleles", "replaced_genotypes", "kept_genotypes" >>

(***************************************************************************)
(* dict: insertion-ordered, a sequence of <<key, value>> items.            *)
(***************************************************************************)
dict_has(d, k) == \E i \in 1..Len(d) : d[i][1] = k

dict_get(d, k) == d[CHOOSE i \in 1..Len(d) : d[i][1] = k][2]

\* variant: every assignment adds an item, also for a key already present
dict_set_appends(d, k, v) == Append(d, <<k, v>>)

\* variant: an existing key is removed and re-inserted at the end
dict_set_moves_to_end(d, k, v) ==
    Append(SelectSeq(d, LAMBDA item : item[1] # k), <<k, v>>)

\* d[k] = v: an existing key keeps its place and takes the new value
dict_set(d, k, v) ==
    IF dict_has(d, k)
    THEN [i \in 1..Len(d) |-> IF d[i][1] = k THEN <<k, v>> ELSE d[i]]
    ELSE Append(d, <<k, v>>)

(***************************************************************************)
(* read_vcf_header and read_vcf.                                           *)
(***************************************************************************)
\* variant: only the header lines before the first record line are taken
RECURSIVE read_vcf_header_leading(_)
read_vcf_header_leading(file) ==
    IF file = <<>> \/ ~startswith_hash(Head(file)) THEN <<>>
    ELSE <<Head(file)>> \o read_vcf_header_leading(Tail(file))

RECURSIVE read_vcf_header(_)
read_vcf_header(file) ==
    IF file = <<>> THEN <<>>
    ELSE IF startswith_hash(Head(file))
         THEN <<Head(file)>> \o read_vcf_header(Tail(file))
         ELSE read_vcf_header(Tail(file))

\* "".join(parts[9].split(':')[1:])
format_other_of(sample) == join(<<>>, Tail(split(sample, COLON)))

\* the exception one non-header line raises in read_vcf, "" when none
line_error(parts) ==
    IF Len(parts) < 2 THEN "IndexError"
    ELSE IF ~int_ok(parts[2]) THEN "ValueError"
    ELSE IF Len(parts) < 10 THEN "IndexError"
    ELSE ""

\* the value stored for one non-header line
record_of(line, parts) ==
    [ line            |-> line,
      ref             |-> parts[4],
      alt             |-> parts[5],
      format_genotype |-> Head(split(parts[10], COLON)),
      format_other    |-> format_other_of(parts[10]) ]

coordinate_of(parts) == <<parts[1], int_value(parts[2])>>

RECURSIVE read_vcf_loop(_, _)
read_vcf_loop(file, vcf_data) ==
    IF file = <<>> THEN [error |-> "", data |-> vcf_data]
    ELSE LET line  == Head(file)
             parts == split(strip(line), TAB)
         IN  IF startswith_hash(line)
             THEN read_vcf_loop(Tail(file), vcf_data)
             ELSE IF line_error(parts) # ""
             THEN [error |-> line_error(parts), data |-> vcf_data]
             ELSE read_vcf_loop(Tail(file),
                      dict_set(vcf_data, coordinate_of(parts),
                               record_of(line, parts)))

read_vcf(file) == read_vcf_loop(file, <<>>)

(***************************************************************************)
(* replace_genotypes: the pieces of one loop iteration.                    *)
(***************************************************************************)
\* format_genotype_a not in ALLOWED_GENOTYPES
unphased_rejected(format_genotype_a) == format_genotype_a \notin ALLOWED_GENOTYPES

\* format_genotype_b not in map(phase_genotype, ALLOWED_GENOTYPES)
phased_rejected(format_genotype_b) == format_genotype_b \notin PHASED_GENOTYPES

\* variant: the allele pairs are compared as unordered pairs
genotypes_inconsistent_unordered(format_genotype_a, format_genotype_b) ==
    LET pa == split(format_genotype_a, "/")
        pb == split(format_genotype_b, "|")
    IN  { pa[n] : n \in 1..Len(pa) } # { pb[n] : n \in 1..Len(pb) }

\* ref_alt_a != ref_alt_b
genotypes_inconsistent(format_genotype_a, format_genotype_b) ==
    split(format_genotype_a, "/") # split(format_genotype_b, "|")

\* alleles_a != alleles_b
alleles_inconsistent(rec_a, rec_b) == <<rec_a.ref, rec_a.alt>> # <<rec_b.ref, rec_b.alt>>

\* variant: the rebuilt column is written one field early
modified_line_off_by_one(line_a, format_genotype_b, format_other_a) ==
    LET parts == split(strip(line_a), TAB)
        new   == [parts EXCEPT ![9] = format_genotype_b \o <<COLON>> \o format_other_a]
    IN  join(<<TAB>>, new) \o <<NL>>

\* modified_line_a: A's line with field 9 set to f"{format_genotype_b}:{format_other_a}"
modified_line(line_a, format_genotype_b, format_other_a) ==
    LET parts == split(strip(line_a), TAB)
        new   == [parts EXCEPT ![10] = format_genotype_b \o <<COLON>> \o format_other_a]
    IN  join(<<TAB>>, new) \o <<NL>>

\* EVENT_LOGGER[event].append(coordinate)
logged(logger, event, coordinate) ==
    [logger EXCEPT ![event] = Append(@, coordinate)]

(***************************************************************************)
(* The input files a run is started on.                                    *)
(***************************************************************************)
mk_line(fields) == join(<<TAB>>, fields) \o <<NL>>

\* GENOTYPE[:EXTRA1:EXTRA2:...] with k extra subfields, the first being first
sample_column(gt, first, k) ==
    join(<<COLON>>, <<gt>> \o [i \in 1..k |-> <<DIGITS[first + i]>>])

line_a(pos, gt, k) ==
    mk_line(<< <<"c">>, pos, <<".">>, <<"A">>, <<"T">>, <<".">>, <<".">>, <<".">>,
               <<"G">>, sample_column(gt, 5, k) >>)

line_b(pos, alt, gt) ==
    mk_line(<< <<"c">>, pos, <<"b">>, <<"A">>, alt, <<"q">>, <<"f">>, <<"i">>,
               <<"F">>, sample_column(gt, 1, 1) >>)

\* a record line cut after field 7
short_line == mk_line(<< <<"c">>, <<"1">>, <<".">>, <<"A">>, <<"T">>, <<".">>, <<".">>, <<".">> >>)

RecordLinesA ==
    { line_a(<<"1">>, <<"0", "/", "1">>, MaxExtra),
      line_a(<<"1">>, <<"1", "/", "0">>, 0),
      line_a(<<"2">>, <<"0", "/", "1">>, 1) }

LinesA ==
    RecordLinesA \cup
    { line_a(<<"2">>, <<".", "/", ".">>, 1),
      short_line,
      <<"#", "h", NL>>,
      <<"#", "g", NL>> }

RecordLinesB ==
    { line_b(<<"1">>, <<"T">>, <<"0", "|", "1">>),
      line_b(<<"0", "1">>, <<"G">>, <<"1", "|", "0">>),
      line_b(<<"2">>, <<"T">>, <<"0", "/", "1">>) }

LinesB ==
    RecordLinesB \cup
    { line_b(<<"x">>, <<"T">>, <<"0", "|", "1">>) }

RECURSIVE FilesUpTo(_, _)
FilesUpTo(lines, n) ==
    IF n = 0 THEN { <<>> }
    ELSE LET shorter == FilesUpTo(lines, n - 1)
         IN  shorter \cup { Append(f, l) : f \in shorter, l \in lines }

(***************************************************************************)
(* State of one run of the script.                                         *)
(***************************************************************************)
VARIABLES
    file_a,           \* content of sys.argv[1], line by line
    file_b,           \* content of sys.argv[2], line by line
    pc,               \* position of the run in __main__ / replace_genotypes
    header_a,         \* header_a of __main__
    vcf_a,            \* vcf_a of replace_genotypes
    vcf_b,            \* vcf_b of replace_genotypes
    visited,          \* number of items of vcf_a the for loop has taken
    updated_content,  \* updated_content of replace_genotypes
    EVENT_LOGGER,     \* the module-level EVENT_LOGGER
    result,           \* result of __main__
    output_file,      \* the file at sys.argv[3]: opened by this run, content
    stdout,           \* the event counts printed at the end
    error             \* the exception that ended the run, "" when none

vars == << file_a, file_b, pc, header_a, vcf_a, vcf_b, visited, updated_content,
           EVENT_LOGGER, result, output_file, stdout, error >>

Init ==
    /\ file_a \in FilesUpTo(LinesA, MaxLinesA) \cup FilesUpTo(RecordLinesA, MaxRecordsA)
    /\ file_b \in FilesUpTo(LinesB, MaxLinesB) \cup FilesUpTo(RecordLinesB, MaxRecordsB)
    /\ pc = "read_vcf_header"
    /\ header_a = <<>>
    /\ vcf_a = <<>>
    /\ vcf_b = <<>>
    /\ visited = 0
    /\ updated_content = <<>>
    /\ EVENT_LOGGER = [e \in {EVENTS[n] : n \in 1..Len(EVENTS)} |-> <<>>]
    /\ result = <<>>
    /\ output_file = [opened |-> FALSE, content |-> <<>>]
    /\ stdout = <<>>
    /\ error = ""

\* header_a = read_vcf_header(file_a_path)
ReadHeader ==
    /\ pc = "read_vcf_header"
    /\ header_a' = read_vcf_header(file_a)
    /\ pc' = "read_vcf_a"
    /\ UNCHANGED << file_a, file_b, vcf_a, vcf_b, visited, updated_content,
                    EVENT_LOGGER, result, output_file, stdout, error >>

\* variant: the records of B are read into the same map as those of A
ReadA_with_b ==
    /\ pc = "read_vcf_a"
    /\ read_vcf(file_a).error = ""
    /\ vcf_a' = read_vcf_loop(file_b, read_vcf(file_a).data).data
    /\ pc' = "read_vcf_b"
    /\ UNCHANGED << file_a, file_b, header_a, vcf_b, visited, updated_content,
                    EVENT_LOGGER, result, output_file, stdout, error >>

\* vcf_a = read_vcf(file_a)
ReadA ==
    /\ pc = "read_vcf_a"
    /\ read_vcf(file_a).error = ""
    /\ vcf_a' = read_vcf(file_a).data
    /\ pc' = "read_vcf_b"
    /\ UNCHANGED << file_a, file_b, header_a, vcf_b, visited, updated_content,
                    EVENT_LOGGER, result, output_file, stdout, error >>

\* read_vcf(file_a) raises on a malformed line
ReadAFails ==
    /\ pc = "read_vcf_a"
    /\ read_vcf(file_a).error # ""
    /\ error' = read_vcf(file_a).error
    /\ pc' = "aborted"
    /\ UNCHANGED << file_a, file_b, header_a, vcf_a, vcf_b, visited, updated_content,
                    EVENT_LOGGER, result, output_file, stdout >>

\* vcf_b = read_vcf(file_b)
ReadB ==
    /\ pc = "read_vcf_b"
    /\ read_vcf(file_b).error = ""
    /\ vcf_b' = read_vcf(file_b).data
    /\ pc' = "loop"
    /\ UNCHANGED << file_a, file_b, header_a, vcf_a, visited, updated_content,
                    EVENT_LOGGER, result, output_file, stdout, error >>

\* read_vcf(file_b) raises on a malformed line
ReadBFails ==
    /\ pc = "read_vcf_b"
    /\ read_vcf(file_b).error # ""
    /\ error' = read_vcf(file_b).error
    /\ pc' = "aborted"
    /\ UNCHANGED << file_a, file_b, header_a, vcf_a, vcf_b, visited, updated_content,
                    EVENT_LOGGER, result, output_file, stdout >>

\* the item of vcf_a the for loop takes next
coordinate == vcf_a[visited + 1][1]
rec_a      == vcf_a[visited + 1][2]
rec_b      == dict_get(vcf_b, coordinate)

\* variant: the kept line is rebuilt from its parsed parts like a replaced one
Keep_rebuilt ==
    /\ pc = "loop" /\ visited < Len(vcf_a)
    /\ ~dict_has(vcf_b, coordinate)
    /\ updated_content' =
           Append(updated_content,
                  modified_line(rec_a.line, rec_a.format_genotype, rec_a.format_other))
    /\ EVENT_LOGGER' = logged(logged(EVENT_LOGGER, "read_lines", coordinate),
                              "kept_genotypes", coordinate)
    /\ visited' = visited + 1
    /\ UNCHANGED << file_a, file_b, pc, header_a, vcf_a, vcf_b, result,
                    output_file, stdout, error >>

\* else branch: coordinate not in vcf_b
Keep ==
    /\ pc = "loop" /\ visited < Len(vcf_a)
    /\ ~dict_has(vcf_b, coordinate)
    /\ updated_content' = Append(updated_content, rec_a.line)
    /\ EVENT_LOGGER' = logged(logged(EVENT_LOGGER, "read_lines", coordinate),
                              "kept_genotypes", coordinate)
    /\ visited' = visited + 1
    /\ UNCHANGED << file_a, file_b, pc, header_a, vcf_a, vcf_b, result,
                    output_file, stdout, error >>

\* variant: a rejected genotype of A skips the coordinate instead of ending the run
ExitUnphased_skips ==
    /\ pc = "loop" /\ visited < Len(vcf_a)
    /\ dict_has(vcf_b, coordinate)
    /\ unphased_rejected(rec_a.format_genotype)
    /\ EVENT_LOGGER' = logged(EVENT_LOGGER, "read_lines", coordinate)
    /\ visited' = visited + 1
    /\ UNCHANGED << file_a, file_b, pc, header_a, vcf_a, vcf_b, updated_content,
                    result, output_file, stdout, error >>

\* sys.exit(...) on A's genotype; called with two arguments, it raises TypeError
ExitUnphased ==
    /\ pc = "loop" /\ visited < Len(vcf_a)
    /\ dict_has(vcf_b, coordinate)
    /\ unphased_rejected(rec_a.format_genotype)
    /\ EVENT_LOGGER' = logged(EVENT_LOGGER, "read_lines", coordinate)
    /\ error' = "TypeError"
    /\ pc' = "aborted"
    /\ UNCHANGED << file_a, file_b, header_a, vcf_a, vcf_b, visited, updated_content,
                    result, output_file, stdout >>

\* sys.exit(...) on B's genotype; called with two arguments, it raises TypeError
ExitPhased ==
    /\ pc = "loop" /\ visited < Len(vcf_a)
    /\ dict_has(vcf_b, coordinate)
    /\ ~unphased_rejected(rec_a.format_genotype)
    /\ phased_rejected(rec_b.format_genotype)
    /\ EVENT_LOGGER' = logged(EVENT_LOGGER, "read_lines", coordinate)
    /\ error' = "TypeError"
    /\ pc' = "aborted"
    /\ UNCHANGED << file_a, file_b, header_a, vcf_a, vcf_b, visited, updated_content,
                    result, output_file, stdout >>

\* if branch: both genotypes pass, inconsistencies are logged, the line is rebuilt
Replace ==
    /\ pc = "loop" /\ visited < Len(vcf_a)
    /\ dict_has(vcf_b, coordinate)
    /\ ~unphased_rejected(rec_a.format_genotype)
    /\ ~phased_rejected(rec_b.format_genotype)
    /\ LET l1 == logged(EVENT_LOGGER, "read_lines", coordinate)
           l2 == IF genotypes_inconsistent(rec_a.format_genotype, rec_b.format_genotype)
                 THEN logged(l1, "inconsistent_ref_alt_genotypes", coordinate)
                 ELSE l1
           l3 == IF alleles_inconsistent(rec_a, rec_b)
                 THEN logged(l2, "inconsistent_ref_alt_alleles", coordinate)
                 ELSE l2
       IN  EVENT_LOGGER' = logged(l3, "replaced_genotypes", coordinate)
    /\ updated_content' =
           Append(updated_content,
                  modified_line(rec_a.line, rec_b.format_genotype, rec_a.format_other))
    /\ visited' = visited + 1
    /\ UNCHANGED << file_a, file_b, pc, header_a, vcf_a, vcf_b, result,
                    output_file, stdout, error >>

\* return ''.join(updated_content)
Return ==
    /\ pc = "loop" /\ visited = Len(vcf_a)
    /\ result' = join(<<>>, updated_content)
    /\ pc' = "write"
    /\ UNCHANGED << file_a, file_b, header_a, vcf_a, vcf_b, visited, updated_content,
                    EVENT_LOGGER, output_file, stdout, error >>

\* open_file(file_path, _mode): gzip.open(file_path, _mode) for a path ending in
\* ".gz", open(file_path, 'r') for any other path, whatever _mode says
open_file_mode(path_is_gz, _mode) == IF path_is_gz THEN _mode ELSE "r"

\* with open_file(output_file_path, "wt"): write header, write result;
\* sys.argv[3] ends in ".gz", the file is opened for writing
WriteOutput ==
    /\ pc = "write"
    /\ open_file_mode(TRUE, "wt") = "wt"
    /\ output_file' = [opened |-> TRUE, content |-> join(<<>>, header_a) \o result]
    /\ pc' = "report"
    /\ UNCHANGED << file_a, file_b, header_a, vcf_a, vcf_b, visited, updated_content,
                    EVENT_LOGGER, result, stdout, error >>

\* sys.argv[3] does not end in ".gz": the file is opened for reading, which
\* raises FileNotFoundError when it does not exist and otherwise makes the
\* first write raise io.UnsupportedOperation
WriteFails ==
    /\ pc = "write"
    /\ open_file_mode(FALSE, "wt") = "r"
    /\ \E exists \in BOOLEAN :
           /\ output_file' = [opened |-> exists, content |-> <<>>]
           /\ error' = IF exists THEN "UnsupportedOperation" ELSE "FileNotFoundError"
    /\ pc' = "aborted"
    /\ UNCHANGED << file_a, file_b, header_a, vcf_a, vcf_b, visited, updated_content,
                    EVENT_LOGGER, result, stdout >>

\* for event, coordinates in EVENT_LOGGER.items(): print(f"{event}: {len(coordinates)}")
Report ==
    /\ pc = "report"
    /\ stdout' = [n \in 1..Len(EVENTS) |-> <<EVENTS[n], Len(EVENT_LOGGER[EVENTS[n]])>>]
    /\ pc' = "done"
    /\ UNCHANGED << file_a, file_b, header_a, vcf_a, vcf_b, visited, updated_content,
                    EVENT_LOGGER, result, output_file, error >>

Next ==
    \/ ReadHeader
    \/ ReadA
    \/ ReadAFails
    \/ ReadB
    \/ ReadBFails
    \/ Keep
    \/ ExitUnphased
    \/ ExitPhased
    \/ Replace
    \/ Return
    \/ WriteOutput
    \/ WriteFails
    \/ Report

Spec == Init /\ [][Next]_vars

(***************************************************************************)
(* Vocabulary of the properties, computed from the two input files alone.  *)
(***************************************************************************)
IsHeader(line) == line # <<>> /\ line[1] = "#"

HeaderLines(file) == SelectSeq(file, IsHeader)

IsRecordLine(line) == ~IsHeader(line)

DataLines(file) == SelectSeq(file, IsRecordLine)

\* the tab fields of a line, its surrounding blanks and terminator removed
Fields(line) == split(strip(line), TAB)

WellFormed(line) ==
    LET f == Fields(line) IN Len(f) >= 10 /\ int_ok(f[2])

Parses(file) == \A n \in 1..Len(file) : IsHeader(file[n]) \/ WellFormed(file[n])

Coord(line) ==
    LET f == Fields(line) IN <<f[1], int_value(f[2])>>

Genotype(line) == Head(split(Fields(line)[10], COLON))

Extras(line) == Tail(split(Fields(line)[10], COLON))

\* the distinct elements of a sequence in order of first appearance
RECURSIVE Distinct(_, _)
Distinct(cs, seen) ==
    IF cs = <<>> THEN seen
    ELSE IF \E n \in 1..Len(seen) : seen[n] = Head(cs)
         THEN Distinct(Tail(cs), seen)
         ELSE Distinct(Tail(cs), Append(seen, Head(cs)))

LastIndex(cs, c) ==
    CHOOSE m \in 1..Len(cs) : cs[m] = c /\ \A j \in (m + 1)..Len(cs) : cs[j] # c

\* What a file says: whether every record line is well-formed and, if so,
\* its distinct coordinates in order of first appearance (coords), the last
\* line at each of them (last) with its genotype subfield (gt), and the
\* number of its record lines (lines).  Every line is parsed once.
View(file) ==
    LET d   == DataLines(file)
        f   == [n \in 1..Len(d) |-> Fields(d[n])] \o <<>>    \* \o <<>>: as a tuple
        ok  == \A n \in 1..Len(d) : Len(f[n]) >= 10 /\ int_ok(f[n][2])
        cs  == [n \in 1..Len(d) |-> <<f[n][1], int_value(f[n][2])>>] \o <<>>
        fs  == Distinct(cs, <<>>)
        at  == [k \in 1..Len(fs) |-> LastIndex(cs, fs[k])] \o <<>>
    IN  IF ~ok
        THEN [ok |-> FALSE, coords |-> <<>>, last |-> <<>>, gt |-> <<>>, lines |-> Len(d)]
        ELSE [ok     |-> TRUE,
              coords |-> fs,
              last   |-> [k \in 1..Len(fs) |-> d[at[k]]],
              gt     |-> [k \in 1..Len(fs) |-> Head(split(f[at[k]][10], COLON))],
              lines  |-> Len(d)]

Has(V, c) == \E n \in 1..Len(V.coords) : V.coords[n] = c

IndexIn(V, c) == CHOOSE n \in 1..Len(V.coords) : V.coords[n] = c

LineAt(V, c) == V.last[IndexIn(V, c)]

GenotypeAt(V, c) == V.gt[IndexIn(V, c)]

NoRepeat(V) == Len(V.coords) = V.lines

Unphased == { <<"0", "/", "0">>, <<"0", "/", "1">>, <<"1", "/", "0">>, <<"1", "/", "1">> }

AcceptedPhased ==
    { <<"0", "|", "0">>, <<"0", "|", "1">>, <<"1", "|", "0">>, <<"1", "|", "1">> }

Occurs(seq, x) == \E n \in 1..Len(seq) : seq[n] = x

Count(seq, x) == Cardinality({ n \in 1..Len(seq) : seq[n] = x })

Bucket(event) == EVENT_LOGGER[event]

\* the run was ended by a malformed line or by a rejected genotype
FatalExit == pc = "aborted" /\ error \in {"IndexError", "ValueError", "TypeError"}

\* the indices k of A's coordinates that B has too (both files being well-formed)
SharedIdx(A, B) ==
    IF A.ok /\ B.ok THEN { k \in 1..Len(A.coords) : Has(B, A.coords[k]) } ELSE {}

\* the k-th output line is the one produced for the k-th distinct coordinate of A
ReplacedIdx(A, B) == { k \in SharedIdx(A, B) : k <= Len(updated_content) }

KeptIdx(A, B) == { k \in 1..Len(updated_content) : ~Has(B, A.coords[k]) }

(***************************************************************************)
(* C1: at a coordinate present in both files with valid genotypes, the     *)
(* output line has B's genotype as the genotype subfield of the sample     *)
(* column (tab field 9) and A's text in every other tab field; nothing     *)
(* else of B's line appears in it.                                         *)
(***************************************************************************)
C1_ReplacedLineIsAWithBGenotype ==
    updated_content # <<>> =>
    LET A == View(file_a)
        B == View(file_b)
    IN  \A k \in ReplacedIdx(A, B) :
            LET la  == A.last[k]
                lb  == LineAt(B, A.coords[k])
                out == updated_content[k]
                fo  == split(out, TAB)
                fa  == Fields(la)
                so  == split(Fields(out)[10], COLON)
            IN  /\ out[Len(out)] = NL
                /\ Len(fo) = Len(fa)
                /\ \A n \in 1..Len(fa) :
                       n \notin {10, Len(fa)} => fo[n] = fa[n]
                /\ Len(fa) > 10 => fo[Len(fa)] = fa[Len(fa)] \o <<NL>>
                /\ Head(so) = Genotype(lb)
                /\ join(<<>>, Tail(so)) = join(<<>>, Extras(la))

C1_Witness ==
    /\ pc = "done"
    /\ Len(Bucket("replaced_genotypes")) >= 1
    /\ Len(Bucket("inconsistent_ref_alt_alleles")) >= 1

(***************************************************************************)
(* C2: at a coordinate present in both files, the output sample column     *)
(* split on ':' is B's genotype followed by exactly A's extra subfields,   *)
(* in order (stated here for the lines of A that carry extra subfields).   *)
(***************************************************************************)
C2_ExtrasCarriedUnchanged ==
    updated_content # <<>> =>
    LET A == View(file_a)
        B == View(file_b)
    IN  \A k \in ReplacedIdx(A, B) :
            LET la == A.last[k]
                lb == LineAt(B, A.coords[k])
            IN  Extras(la) # <<>> =>
                    split(Fields(updated_content[k])[10], COLON)
                        = <<Genotype(lb)>> \o Extras(la)

(***************************************************************************)
(* C3: B's genotype "1|0" at a coordinate present in both files (A's       *)
(* genotype being valid) is a fatal genotype format error: the coordinate  *)
(* is never logged in replaced_genotypes, no output line is produced for   *)
(* it and the run does not complete.                                       *)
(***************************************************************************)
C3_OneZeroIsRejected ==
    pc \in {"loop", "write", "report", "done", "aborted"} =>
    LET A == View(file_a)
        B == View(file_b)
    IN  \A k \in SharedIdx(A, B) :
            ( /\ GenotypeAt(B, A.coords[k]) = <<"1", "|", "0">>
              /\ A.gt[k] \in Unphased ) =>
                /\ ~Occurs(Bucket("replaced_genotypes"), A.coords[k])
                /\ Len(updated_content) < k
                /\ pc \notin {"write", "report", "done"}

(***************************************************************************)
(* C4: a coordinate of A that B lacks keeps A's raw line unchanged, is     *)
(* not validated (an A genotype outside the unphased vocabulary does not   *)
(* abort the run), is logged in kept_genotypes and in no other outcome or  *)
(* inconsistency bucket, and on completion the kept_genotypes count is the *)
(* number of coordinates in A and not in B.                                *)
(***************************************************************************)
C4_KeptLinesVerbatim ==
    pc \in {"loop", "write", "report", "done", "aborted"} =>
    LET A == View(file_a)
        B == View(file_b)
    IN  /\ \A k \in KeptIdx(A, B) :
               LET c == A.coords[k]
               IN  /\ updated_content[k] = A.last[k]
                   /\ Count(Bucket("kept_genotypes"), c) = 1
                   /\ ~Occurs(Bucket("replaced_genotypes"), c)
                   /\ ~Occurs(Bucket("inconsistent_ref_alt_genotypes"), c)
                   /\ ~Occurs(Bucket("inconsistent_ref_alt_alleles"), c)
        /\ pc = "done" =>
               Len(Bucket("kept_genotypes"))
                   = Cardinality({ k \in 1..Len(A.coords) : ~Has(B, A.coords[k]) })
        /\ (A.ok /\ B.ok /\ SharedIdx(A, B) = {}) => ~FatalExit
        /\ error = "TypeError" =>
               Has(B, Bucket("read_lines")[Len(Bucket("read_lines"))])

C4_Witness ==
    /\ pc = "done"
    /\ \E k \in 1..Len(updated_content) :
           /\ Genotype(updated_content[k]) \notin Unphased
           /\ Occurs(Bucket("kept_genotypes"), Coord(updated_content[k]))
    /\ Len(Bucket("replaced_genotypes")) >= 1

(***************************************************************************)
(* C5: a fatal condition (a record line of A or B with fewer than 10 tab   *)
(* fields or a non-integer position, or at a shared coordinate an A        *)
(* genotype outside the unphased vocabulary or a B genotype outside the    *)
(* phased vocabulary the validator accepts) aborts the run at that point:  *)
(* no later coordinate of A is visited, nothing more is logged, the output *)
(* file is never opened and the tally is never printed.                    *)
(***************************************************************************)
\* the indices of A's coordinates at which a genotype is rejected
FatalIdx(A, B) ==
    { k \in SharedIdx(A, B) :
          \/ A.gt[k] \notin Unphased
          \/ GenotypeAt(B, A.coords[k]) \notin AcceptedPhased }

Least(S) == CHOOSE k \in S : \A j \in S : k <= j

NothingWritten ==
    /\ ~output_file.opened
    /\ output_file.content = <<>>
    /\ stdout = <<>>
    /\ pc \notin {"write", "report", "done"}

NothingHappened ==
    /\ NothingWritten
    /\ updated_content = <<>>
    /\ \A n \in 1..Len(EVENTS) : Bucket(EVENTS[n]) = <<>>

C5_FatalConditionAborts ==
    IF pc \in {"read_vcf_header", "read_vcf_a", "read_vcf_b"}
    THEN NothingHappened
    ELSE
    LET A     == View(file_a)
        B     == View(file_b)
        fatal == FatalIdx(A, B)
    IN  /\ ~(A.ok /\ B.ok) =>
               /\ NothingHappened
               /\ pc # "loop"
        /\ fatal # {} =>
               /\ NothingWritten
               /\ Len(Bucket("read_lines")) <= Least(fatal)
               /\ Len(updated_content) < Least(fatal)
               /\ \A n \in 2..Len(EVENTS) : Len(Bucket(EVENTS[n])) < Least(fatal)
               /\ pc = "aborted" => Len(Bucket("read_lines")) = Least(fatal)
        /\ FatalExit =>
               /\ NothingWritten
               /\ ~(A.ok /\ B.ok) \/ fatal # {}

C5_Witness ==
    /\ pc = "aborted"
    /\ error = "TypeError"
    /\ Len(Bucket("read_lines")) = 2
    /\ Len(updated_content) = 1

(***************************************************************************)
(* C6 as claimed: on completion the read_lines count is the number of      *)
(* non-header lines of A, also when A repeats a coordinate.                *)
(***************************************************************************)
C6_ReadLinesCountsLines ==
    pc = "done" => Len(Bucket("read_lines")) = Len(DataLines(file_a))

(***************************************************************************)
(* C6 amended: on completion read_lines holds the distinct coordinates of  *)
(* A's non-header lines, each once, whatever B contains; its count is the  *)
(* number of non-header lines of A when A repeats no coordinate.           *)
(***************************************************************************)
C6_ReadLinesCountsCoordinates ==
    pc = "done" =>
    LET A == View(file_a)
    IN  /\ Len(Bucket("read_lines")) = Len(A.coords)
        /\ \A k \in 1..Len(A.coords) : Count(Bucket("read_lines"), A.coords[k]) = 1
        /\ NoRepeat(A) => Len(Bucket("read_lines")) = Len(DataLines(file_a))

C6_Witness ==
    /\ pc = "done"
    /\ Len(DataLines(file_a)) = 3
    /\ Len(Bucket("read_lines")) = 2
    /\ file_b # <<>>

HeadersFirst(file) ==
    \A m, n \in 1..Len(file) : (IsHeader(file[n]) /\ ~IsHeader(file[m])) => n < m

OnlyReadAndKept ==
    /\ Bucket("inconsistent_ref_alt_genotypes") = <<>>
    /\ Bucket("inconsistent_ref_alt_alleles") = <<>>
    /\ Bucket("replaced_genotypes") = <<>>

(***************************************************************************)
(* C7 as claimed: with no record in B, for every A the merge result is the *)
(* concatenation of all non-header lines of A in file order, each once,    *)
(* the written output is A's header lines followed by it, and the buckets  *)
(* other than read_lines and kept_genotypes stay empty.                    *)
(***************************************************************************)
C7_EmptyBReturnsEveryLine ==
    (pc = "done" /\ DataLines(file_b) = <<>>) =>
        /\ result = join(<<>>, DataLines(file_a))
        /\ output_file.content = join(<<>>, HeaderLines(file_a)) \o join(<<>>, DataLines(file_a))
        /\ OnlyReadAndKept

(***************************************************************************)
(* C7 amended: with no record in B, the merge result is, for each distinct *)
(* coordinate of A in order of first appearance, the last line of A at     *)
(* that coordinate; the written output is A's header lines followed by it; *)
(* the buckets other than read_lines and kept_genotypes stay empty.  When  *)
(* A repeats no coordinate the result is all non-header lines of A in file *)
(* order, and when moreover A's header lines precede its records the       *)
(* written output is byte-identical to A.                                  *)
(***************************************************************************)
C7_EmptyBReturnsLastLinePerCoordinate ==
    (pc = "done" /\ DataLines(file_b) = <<>>) =>
    LET A == View(file_a)
    IN  /\ result = join(<<>>, A.last)
        /\ output_file.content = join(<<>>, HeaderLines(file_a)) \o result
        /\ OnlyReadAndKept
        /\ Bucket("kept_genotypes") = A.coords
        /\ NoRepeat(A) => result = join(<<>>, DataLines(file_a))
        /\ (NoRepeat(A) /\ HeadersFirst(file_a)) =>
               output_file.content = join(<<>>, file_a)

C7_Witness ==
    /\ pc = "done"
    /\ DataLines(file_b) = <<>>
    /\ Len(DataLines(file_a)) = 3
    /\ Len(Bucket("kept_genotypes")) = 2

(***************************************************************************)
(* C8: at a coordinate present in both files with valid genotypes, the     *)
(* coordinate is logged in inconsistent_ref_alt_genotypes exactly when the *)
(* two alleles of A's genotype differ from those of B's genotype position  *)
(* by position (no sorting: "1/0" against "0|1" is flagged), and in        *)
(* inconsistent_ref_alt_alleles exactly when (ref, alt) differ as text; in *)
(* every combination the line is rebuilt with B's genotype, the coordinate *)
(* is logged in replaced_genotypes and the iteration goes on.              *)
(***************************************************************************)
PairDiffers(ga, gb) == ga[1] # gb[1] \/ ga[3] # gb[3]

RefAltDiffers(la, lb) ==
    LET fa == Fields(la)
        fb == Fields(lb)
    IN  fa[4] # fb[4] \/ fa[5] # fb[5]

C8_InconsistenciesLoggedNotFatal ==
    pc \in {"loop", "write", "report", "done", "aborted"} =>
    LET A     == View(file_a)
        B     == View(file_b)
        fatal == FatalIdx(A, B)
        read  == Len(Bucket("read_lines"))
    IN  /\ \A k \in SharedIdx(A, B) \ fatal :
               LET c  == A.coords[k]
                   la == A.last[k]
                   lb == LineAt(B, c)
               IN  /\ (k < read \/ (k = read /\ ~FatalExit)) =>
                       /\ Count(Bucket("inconsistent_ref_alt_genotypes"), c)
                              = IF PairDiffers(A.gt[k], GenotypeAt(B, c)) THEN 1 ELSE 0
                       /\ Count(Bucket("inconsistent_ref_alt_alleles"), c)
                              = IF RefAltDiffers(la, lb) THEN 1 ELSE 0
                       /\ Count(Bucket("replaced_genotypes"), c) = 1
                       /\ k <= Len(updated_content)
                       /\ Genotype(updated_content[k]) = GenotypeAt(B, c)
                   /\ FatalExit => k # read
        /\ (A.ok /\ B.ok /\ fatal = {}) => ~FatalExit
        /\ pc = "done" => Len(updated_content) = Len(A.coords)

C8_Witness ==
    /\ pc = "done"
    /\ Len(Bucket("replaced_genotypes")) = 1
    /\ Len(Bucket("read_lines")) = 2
    /\ Genotype(DataLines(file_a)[1]) = <<"1", "/", "0">>
    /\ Genotype(updated_content[1]) = <<"0", "|", "1">>
    /\ Bucket("inconsistent_ref_alt_genotypes") = <<Bucket("read_lines")[1]>>
    /\ Bucket("inconsistent_ref_alt_alleles") = <<>>

(***************************************************************************)
(* C9: a coordinate present only in B produces no output line and is in    *)
(* no bucket of the ledger: at every point of the merge every logged       *)
(* coordinate and every output line belongs to a coordinate of A, and      *)
(* whether a coordinate of A is kept or replaced depends only on B having  *)
(* a record at that same coordinate.                                       *)
(***************************************************************************)
C9_OnlyCoordinatesOfA ==
    IF pc \in {"read_vcf_header", "read_vcf_a", "read_vcf_b"}
    THEN NothingHappened
    ELSE
    LET A == View(file_a)
        B == View(file_b)
    IN  /\ \A n \in 1..Len(EVENTS) : \A m \in 1..Len(Bucket(EVENTS[n])) :
               Has(A, Bucket(EVENTS[n])[m])
        /\ Len(updated_content) <= Len(A.coords)
        /\ \A k \in 1..Len(updated_content) :
               LET c == Coord(updated_content[k])
               IN  /\ Has(A, c)
                   /\ c = Bucket("read_lines")[k]
                   /\ Occurs(Bucket("kept_genotypes"), c) <=> ~Has(B, c)
                   /\ Occurs(Bucket("replaced_genotypes"), c) <=> Has(B, c)
        /\ \A j \in 1..Len(B.coords) :
               ~Has(A, B.coords[j]) =>
                   /\ \A n \in 1..Len(EVENTS) : ~Occurs(Bucket(EVENTS[n]), B.coords[j])
                   /\ \A k \in 1..Len(updated_content) :
                          Coord(updated_content[k]) # B.coords[j]

C9_Witness ==
    /\ pc = "done"
    /\ \E j \in 1..Len(View(file_b).coords) :
           ~Has(View(file_a), View(file_b).coords[j])
    /\ Len(Bucket("replaced_genotypes")) = 1
    /\ output_file.opened

(***************************************************************************)
(* C10: the written output is all header lines of A, verbatim and in their *)
(* order, followed by exactly one line per distinct coordinate of A in the *)
(* order in which the coordinates first appear in A; a repeated coordinate *)
(* uses the record of its last line (A's last line at the place of the     *)
(* first, B's last line for the genotype substituted and the alleles       *)
(* compared); the order of B's records does not matter.                    *)
(***************************************************************************)
C10_OutputOrderAndLastWins ==
    pc = "done" =>
    LET A == View(file_a)
        B == View(file_b)
    IN  /\ output_file.content
               = join(<<>>, HeaderLines(file_a)) \o join(<<>>, updated_content)
        /\ Len(updated_content) = Len(A.coords)
        /\ \A k \in 1..Len(updated_content) :
               LET c   == A.coords[k]
                   out == updated_content[k]
                   la  == A.last[k]
                   fo  == Fields(out)
                   fa  == Fields(la)
               IN  /\ Coord(out) = c
                   /\ \A n \in 1..9 : fo[n] = fa[n]
                   /\ IF Has(B, c)
                      THEN /\ Genotype(out) = Genotype(LineAt(B, c))
                           /\ Occurs(Bucket("inconsistent_ref_alt_alleles"), c)
                                  <=> RefAltDiffers(la, LineAt(B, c))
                      ELSE out = la

C10_Witness ==
    /\ pc = "done"
    /\ Len(DataLines(file_a)) = 3
    /\ Len(updated_content) = 2
    /\ Coord(file_a[1]) = Coord(file_a[3])
    /\ file_a[1] # file_a[3]
    /\ Len(file_b) = 2
    /\ Coord(file_b[1]) = Coord(file_b[2])
    /\ file_b[1] # file_b[2]
    /\ Len(Bucket("replaced_genotypes")) = 1

====
